---- MODULE Spec2Model ----
(***************************************************************************)
(* BESSYMachineInterface (src/mint/bessy/bessy_interface.py): the PV cache  *)
(* behind get_value/set_value and the write_data routine that flattens an   *)
(* optimisation run into self.data and hands it to the logging backend.     *)
(*                                                                         *)
(* Strings that are renamed (PV names, eids, keys of self.data) are         *)
(* sequences of tokens: every ':' and every '_' is a token of its own and   *)
(* the other tokens are the maximal runs between them, so that              *)
(* str.replace(":", "_") is computed and not assumed.                       *)
(***************************************************************************)
EXTENDS Integers, Sequences, FiniteSets, TLC

VARIABLES
    pvs,            \* self.pvs: PV name -> handle
    npv,            \* per PV name, the number of epics.PV objects constructed
    accessed,       \* history: names passed to get_value/set_value so far
    data,           \* self.data: key -> value
    obj,            \* the Target objects of the caller (write_data mutates them)
    losspvs,        \* self.losspvs
    python,         \* major version of the interpreter running the module
    last_filename,  \* self.last_filename
    ncalls,         \* history: the number of write_data calls so far
    last            \* history: the last call, its arguments and its outcome

vars ==
    <<pvs, npv, accessed, data, obj, losspvs, python, last_filename, ncalls,
      last>>

----------------------------------------------------------------------------
(* Bounds *)

\* values a caller writes / a PV holds: 0 .. MaxVal
MaxVal == 0
\* longest objective series at the start of a session
MaxLen == 2
\* write_data calls in a session
MaxCalls == 2

Vals == 0 .. MaxVal

----------------------------------------------------------------------------
(* Names *)

BEND == <<"BEND", ":", "DMP1", ":", "400", ":", "BDES">>
CALC252 == <<"SIOC", ":", "SYS0", ":", "ML00", ":", "CALC252">>
BIMAX == <<"BLEN", ":", "LI24", ":", "886", ":", "BIMAX">>
Q1 == <<"Q", ":", "1">>
L1 == <<"L", ":", "1">>
O1 == <<"O", ":", "1">>

PVNames == {BEND, CALC252, BIMAX, Q1, L1}

\* BESSYMachineInterface.name
ClassName == <<"BESSYMachineInterface">>

\* Python values
None == [none |-> TRUE]
Num(v) == [num |-> v]
Str(s) == [str |-> s]
List(s) == [list |-> s]
Ser(s) == [ser |-> s]

SeqRange(s) == {s[i] : i \in 1 .. Len(s)}

\* s[1:]
Slice1(s) == SubSeq(s, 2, Len(s))

\* key.replace(":", "_")
Replace(s) == [i \in DOMAIN s |-> IF s[i] = ":" THEN "_" ELSE s[i]]

----------------------------------------------------------------------------
(* The epics client. A channel is what the control system shows of one PV   *)
(* while a handler runs: PV.get() gives the value of a connected PV and     *)
(* None when no connection can be made.                                     *)

Channels ==
    {[connected |-> FALSE, value |-> 0]}
        \cup {[connected |-> TRUE, value |-> v] : v \in Vals}

PV_get(ch) == IF ch.connected THEN Num(ch.value) ELSE None

\* self.pvs[device_name] = epics.PV(device_name)
new_PV(st, name) ==
    [pvs |-> [x \in DOMAIN st.pvs \cup {name} |->
                 IF x = name THEN <<name, st.npv[name] + 1>> ELSE st.pvs[x]],
     npv |-> [st.npv EXCEPT ![name] = @ + 1]]

\* (mutant) a handle is constructed on every access
cache_after_always_new(st, name) == new_PV(st, name)

\* the cache after get_value(name) or set_value(name, val)
cache_after(st, name) ==
    IF name \notin DOMAIN st.pvs THEN new_PV(st, name) ELSE st

\* (mutant) a cached handle is read without looking at pv.connected, and
\* gives the value it last held
get_value_ret_stale(st, name, ch) ==
    IF name \notin DOMAIN st.pvs THEN PV_get(ch) ELSE Num(ch.value)

\* what get_value(name) returns
get_value_ret(st, name, ch) ==
    IF name \notin DOMAIN st.pvs
    THEN PV_get(ch)
    ELSE IF ~ch.connected THEN None ELSE PV_get(ch)

\* the puts set_value(name, val) issues, as a sequence of <<name, val>>
set_value_puts(st, name, ch, val) ==
    IF name \notin DOMAIN st.pvs
    THEN <<>>
    ELSE IF ~ch.connected THEN <<>> ELSE <<(<<name, val>>)>>

Cache == [pvs |-> pvs, npv |-> npv]

\* get_value over a sequence of names, one call after the other
RECURSIVE cache_after_all(_, _)
cache_after_all(st, names) ==
    IF names = <<>> THEN st
    ELSE cache_after_all(cache_after(st, Head(names)), Tail(names))

RECURSIVE get_all(_, _, _)
get_all(st, names, chan) ==
    IF names = <<>> THEN <<>>
    ELSE <<get_value_ret(st, Head(names), chan[Head(names)])>>
         \o get_all(cache_after(st, Head(names)), Tail(names), chan)

----------------------------------------------------------------------------
(* The caller's objects *)

Sample(o, k, i) == [o |-> o, k |-> k, i |-> i]
Series(o, k, n) == [i \in 1 .. n |-> Sample(o, k, i)]

\* objective_func.losses: one row per point, one reading per loss PV
LossRows(o, n, w) == [i \in 1 .. n |-> [j \in 1 .. w |-> Sample(o, "losses", i * 10 + j)]]

\* two objectives: one with its own PV and a losses attribute, one that
\* reads the PV of device A and has no losses attribute
Objs == {1, 2}
ObjEid(o) == IF o = 1 THEN O1 ELSE Q1
HasLosses(o) == o = 1

Target(o, n, w) ==
    [eid |-> ObjEid(o),
     values |-> Series(o, "values", n),
     objective_means |-> Series(o, "objective_means", n),
     objective_acquisitions |-> Series(o, "objective_acquisitions", n),
     times |-> Series(o, "times", n),
     std_dev |-> Series(o, "std_dev", n),
     charge |-> Series(o, "charge", n),
     current |-> Series(o, "current", n),
     hasLosses |-> HasLosses(o),
     losses |-> IF HasLosses(o) THEN LossRows(o, n, w) ELSE <<>>,
     display_name |-> <<"Mean">>,
     niter |-> n]

\* the devices of a run: eid and recorded values. Device B is the bend
\* magnet whose PV get_energy reads.
DevA == [eid |-> Q1, values |-> Series(0, "A", 1)]
DevB == [eid |-> BEND, values |-> Series(0, "B", 2)]
DevPool == {DevA, DevB}

RECURSIVE SeqsUpTo(_, _)
SeqsUpTo(S, n) ==
    IF n = 0 THEN {<<>>}
    ELSE LET shorter == SeqsUpTo(S, n - 1) IN
         shorter \cup {Append(s, x) : s \in {t \in shorter : Len(t) = n - 1}, x \in S}

\* the devices lists handed to write_data: every list of distinct devices
DevLists ==
    {s \in SeqsUpTo(DevPool, Cardinality(DevPool)) :
        \A i, j \in DOMAIN s : s[i] = s[j] => i = j}

Methods == {<<"simplex">>}

----------------------------------------------------------------------------
(* A session starts with a fresh interface. __init__ (lines 45-54) binds    *)
(* self.data and self.pvs and never self.losspvs: the attribute is missing  *)
(* (None here) unless the base class or the caller has bound it to a list   *)
(* of PV names. Both objectives have recorded the same number of points.    *)

\* self.losspvs as a list, where it is bound
LossPVs == IF losspvs = None THEN <<>> ELSE losspvs.list

Init ==
    /\ pvs = <<>>
    /\ npv = [n \in PVNames |-> 0]
    /\ accessed = {}
    /\ data = <<>>
    /\ losspvs \in {None, List(<<>>), List(<<L1>>)}
    /\ \E n \in 0 .. MaxLen : obj = [o \in Objs |-> Target(o, n, Len(LossPVs))]
    /\ python \in {2, 3}
    /\ last_filename = None
    /\ ncalls = 0
    /\ last = [op |-> "init"]

UnchangedWrite ==
    UNCHANGED <<data, obj, losspvs, python, last_filename, ncalls>>

\* whether each access of `names`, in order, is the first access to its name
RECURSIVE first_all(_, _)
first_all(st, names) ==
    IF names = <<>> THEN <<>>
    ELSE <<Head(names) \notin DOMAIN st.pvs>>
         \o first_all(cache_after(st, Head(names)), Tail(names))

\* get_value over the PVs `names`, in order; `chan` is what each PV shows
getter(op, names, chan) ==
    LET st == cache_after_all(Cache, names) IN
    /\ pvs' = st.pvs
    /\ npv' = st.npv
    /\ accessed' = accessed \cup SeqRange(names)
    /\ last' = [op |-> op, names |-> names,
                conn |-> [i \in DOMAIN names |-> chan[names[i]].connected],
                first |-> first_all(Cache, names),
                rets |-> get_all(Cache, names, chan), puts |-> <<>>]
    /\ UnchangedWrite

get_value(name, ch) == getter("get_value", <<name>>, name :> ch)

set_value(name, val, ch) ==
    LET st == cache_after(Cache, name)
        puts == set_value_puts(Cache, name, ch, val) IN
    /\ pvs' = st.pvs
    /\ npv' = st.npv
    /\ accessed' = accessed \cup {name}
    /\ last' = [op |-> "set_value", names |-> <<name>>, val |-> val,
                conn |-> <<ch.connected>>, first |-> <<name \notin DOMAIN pvs>>,
                rets |-> <<IF puts = <<>> THEN None ELSE [put |-> Len(puts)]>>,
                puts |-> puts]
    /\ UnchangedWrite

get_energy(chan) == getter("get_energy", <<BEND>>, chan)
get_charge(chan) == getter("get_charge", <<CALC252>>, chan)
get_charge_current(chan) == getter("get_charge_current", <<CALC252, BIMAX>>, chan)

\* line 135 raises AttributeError when self.losspvs is missing
get_losses(chan) ==
    IF losspvs = None
    THEN /\ last' = [op |-> "get_losses", names |-> <<>>, conn |-> <<>>,
                     first |-> <<>>, rets |-> <<>>, puts |-> <<>>,
                     exc |-> "AttributeError"]
         /\ UNCHANGED <<pvs, npv, accessed>>
         /\ UnchangedWrite
    ELSE getter("get_losses", LossPVs, chan)

----------------------------------------------------------------------------
(* self.data (self.detValStart and self.detValStop, which nothing reads,   *)
(* are left out). A dictionary is a function from its keys; D.stale is a ghost: *)
(* the keys whose binding was made by an earlier call of write_data.        *)

\* d[k] = v
SetItem(D, k, v) ==
    [map |-> [x \in DOMAIN D.map \cup {k} |-> IF x = k THEN v ELSE D.map[x]],
     stale |-> D.stale \ {k}]

\* d[k].append(item)
AppendItem(D, k, item) ==
    [map |-> [D.map EXCEPT ![k] = List(@.list \o <<item>>)],
     stale |-> D.stale]

\* d[key2] = d.pop(key), with key2 = key.replace(":", "_")
RenameKey(D, key) ==
    LET key2 == Replace(key)
        v == D.map[key]
        rest == DOMAIN D.map \ {key} IN
    [map |-> [x \in rest \cup {key2} |-> IF x = key2 THEN v ELSE D.map[x]],
     stale |-> IF key \in D.stale
               THEN (D.stale \ {key}) \cup {key2}
               ELSE D.stale \ {key, key2}]

RECURSIVE SetEach(_, _, _)
SetEach(D, keys, v) ==
    IF keys = <<>> THEN D ELSE SetEach(SetItem(D, Head(keys), v), Tail(keys), v)

FixedKeys ==
    << <<"DetectorAll">>, <<"DetectorStat">>, <<"DetectorStd">>, <<"timestamps">>,
       <<"charge">>, <<"current">>, <<"stat", "_", "name">> >>

\* lines 258-259: for dev in devices: self.data[dev.eid] = []
RECURSIVE ResetDevices(_, _)
ResetDevices(D, devs) ==
    IF devs = <<>> THEN D
    ELSE ResetDevices(SetItem(D, Head(devs).eid, List(<<>>)), Tail(devs))

\* lines 260-262: for dev in devices: self.data[dev.eid].append(dev.values)
RECURSIVE AppendDevices(_, _)
AppendDevices(D, devs) ==
    IF devs = <<>> THEN D
    ELSE AppendDevices(AppendItem(D, Head(devs).eid, Ser(Head(devs).values)), Tail(devs))

\* lines 246-262
CollectDevices(D, ob, devs) ==
    LET d1 == SetItem(D, ob.eid, List(<<>>))
        d2 == SetEach(d1, FixedKeys, List(<<>>))
        d3 == SetItem(d2, <<"pv", "_", "list">>,
                      List([i \in DOMAIN devs |-> Str(devs[i].eid)]))
    IN AppendDevices(ResetDevices(d3, devs), devs)

\* (mutant) the first device decides
DropFirst_first(ob, devs) == Len(devs[1].values) < Len(ob.values)

\* line 263: vals is what the last pass of the loop of lines 260-262 left
DropFirst(ob, devs) == Len(devs[Len(devs)].values) < Len(ob.values)

\* (mutant) niter is left as it was
Trim_keeps_niter(ob) ==
    [ob EXCEPT !.values = Slice1(@),
               !.objective_means = Slice1(@),
               !.objective_acquisitions = Slice1(@),
               !.times = Slice1(@),
               !.std_dev = Slice1(@),
               !.charge = Slice1(@),
               !.current = Slice1(@),
               !.losses = IF ob.hasLosses THEN Slice1(@) ELSE @]

\* lines 264-275
Trim(ob) ==
    [ob EXCEPT !.values = Slice1(@),
               !.objective_means = Slice1(@),
               !.objective_acquisitions = Slice1(@),
               !.times = Slice1(@),
               !.std_dev = Slice1(@),
               !.charge = Slice1(@),
               !.current = Slice1(@),
               !.losses = IF ob.hasLosses THEN Slice1(@) ELSE @,
               !.niter = @ - 1]

\* lines 276-283
CollectObjective(D, ob) ==
    LET d1 == AppendItem(D, ob.eid, Ser(ob.objective_means))
        d2 == AppendItem(d1, <<"DetectorAll">>, Ser(ob.objective_acquisitions))
        d3 == AppendItem(d2, <<"DetectorStat">>, Ser(ob.values))
        d4 == AppendItem(d3, <<"DetectorStd">>, Ser(ob.std_dev))
        d5 == AppendItem(d4, <<"timestamps">>, Ser(ob.times))
        d6 == AppendItem(d5, <<"charge">>, Ser(ob.charge))
        d7 == AppendItem(d6, <<"current">>, Ser(ob.current))
    IN AppendItem(d7, <<"stat", "_", "name">>, Str(ob.display_name))

\* lines 284-285
RECURSIVE CollectLosses(_, _, _, _)
CollectLosses(D, ob, lpvs, ipv) ==
    IF ipv > Len(lpvs) THEN D
    ELSE CollectLosses(
            SetItem(D, lpvs[ipv], List([i \in DOMAIN ob.losses |-> ob.losses[i][ipv]])),
            ob, lpvs, ipv + 1)

----------------------------------------------------------------------------
(* lines 290-293: the loop renames the keys of the dictionary it iterates.  *)
(* Python leaves the outcome open: the iteration "may raise a RuntimeError  *)
(* or fail to iterate over all entries", and the order of the keys is the   *)
(* dictionary's. A key without ':' is popped and bound again unchanged, so  *)
(* an outcome is the set of keys with ':' the loop got to rename, and       *)
(* whether it ended in RuntimeError.                                        *)
(*  - When key2 is already a key, the dictionary is one entry smaller after *)
(*    line 293 and the iterator raises RuntimeError ("changed size") when   *)
(*    it is asked for the next key, under both interpreters.                *)
(*  - Python 2 compares the size alone, which the loop body otherwise       *)
(*    restores, and its table is not resized by a loop over this few keys:  *)
(*    there every key is renamed, in table order.                           *)
(*  - Python 3 also raises when it finds more keys than the dictionary had  *)
(*    ("keys changed"), and skips keys when the entries are compacted.      *)
(* Under Python 3 every call that reaches the loop ends in RuntimeError or, *)
(* at line 312, in NameError, and self.data is never cleared.               *)

HasColon(k) == \E i \in DOMAIN k : k[i] = ":"
ColonKeys(map) == {k \in DOMAIN map : HasColon(k)}

\* the keys with ':' whose key2 is a key of the dictionary already (the
\* names of this model that differ have different key2)
Clashing(map) == {k \in ColonKeys(map) : Replace(k) \in DOMAIN map}

\* line 293 for every key of S, none of them clashing
RECURSIVE RenameAll(_, _)
RenameAll(D, S) ==
    IF S = {} THEN D
    ELSE LET k == CHOOSE x \in S : TRUE IN RenameAll(RenameKey(D, k), S \ {k})

\* what the renaming loop can leave of D: the dictionary and whether the
\* loop ended in RuntimeError. `ends` are the runs that get to a clashing
\* key, after the keys S, and `runs` those that get to none.
Renamed(D, py) ==
    LET clash == Clashing(D.map)
        free == ColonKeys(D.map) \ clash
        got == IF py = 3 \/ clash # {} THEN SUBSET free ELSE {free}
        ends == {[D |-> RenameKey(RenameAll(D, S), k), raised |-> TRUE] :
                    S \in got, k \in clash}
        runs == IF py = 3 \/ clash = {}
                THEN {[D |-> RenameAll(D, S), raised |-> FALSE] : S \in got}
                ELSE {}
    IN  ends \cup runs \cup
        (IF py = 3 THEN {[r EXCEPT !.raised = TRUE] : r \in runs} ELSE {})

\* line 298: the epics package has no attribute `name`, the assignment raises
\* AttributeError and line 299 swallows it
EpicsName == None

\* lines 295-309; r1, r2 are what the two reads of BEND returned
AddExtras(D, ob, method, ename, r1, r2) ==
    LET d1 == SetItem(D, <<"MachineInterface">>, Str(ClassName))
        d2 == IF ename = None THEN d1 ELSE SetItem(d1, <<"epicsname">>, ename)
        d3 == SetItem(d2, <<"BEND", "_", "DMP1", "_", "400", "_", "BDES">>, r1)
        d4 == SetItem(d3, <<"Energy">>, r2)
        d5 == SetItem(d4, <<"ScanAlgorithm">>, Str(method))
        d6 == SetItem(d5, <<"ObjFuncPv">>, Str(ob.eid))
        d7 == SetItem(d6, <<"DetectorMean">>, Str(Replace(ob.eid)))
    IN SetItem(d7, <<"niter">>, [int |-> ob.niter])

\* lines 226-235, on a key: a str is returned as it is (a unicode key of
\* Python 2 is encoded to the str of the same characters); Python 3 has no
\* name `unicode` and the test of line 232 raises NameError
byteify(key) == key

\* lines 237-238
removeUnicodeKeys(map) ==
    [k2 \in {byteify(k) : k \in DOMAIN map} |->
        map[CHOOSE k \in DOMAIN map : byteify(k) = k2]]

\* lines 218-224
Backend(importFails) == IF importFails THEN "simlog" ELSE "matlog"

\* the state a call of write_data leaves and what it reports
Outcome(exc, D, ob, st, read, saves, before) ==
    [exc |-> exc, data |-> D.map, stale |-> D.stale, ob |-> ob, cache |-> st,
     read |-> read, saves |-> saves, before |-> before]

\* write_data from line 290 on; ro is the outcome of the renaming loop, ch1
\* and ch2 are what the PV shows at the reads of lines 301 and 302
Finish(D3, ob, method, backend, ch1, ch2, ro) ==
    LET D4 == ro.D
        r1 == get_value_ret(Cache, BEND, ch1)
        st1 == cache_after(Cache, BEND)
        r2 == get_value_ret(st1, BEND, ch2)
        st2 == cache_after(st1, BEND)
        D5 == AddExtras(D4, ob, method, EpicsName, r1, r2)
        call == [backend |-> backend, run |-> <<"OcelotScan">>,
                 data |-> removeUnicodeKeys(D5.map), path |-> "default"]
    IN  IF ro.raised THEN Outcome("RuntimeError", D4, ob, Cache, {}, <<>>, D3.map)
        ELSE IF python = 3 THEN Outcome("NameError", D5, ob, st2, {BEND}, <<>>, D3.map)
        ELSE Outcome("", [map |-> <<>>, stale |-> D5.stale], ob, st2, {BEND}, <<call>>, D3.map)

\* write_data up to line 288
Collect(o, devs) ==
    LET ob == obj[o]
        D0 == [map |-> data, stale |-> DOMAIN data]
        D1 == CollectDevices(D0, ob, devs)
        ob2 == IF DropFirst(ob, devs) THEN Trim(ob) ELSE ob
        D2 == CollectObjective(D1, ob2)
        D3 == CollectLosses(D2, ob2, LossPVs, 1)
        serie == D3.map[ob.eid].list
    IN  IF devs = <<>>
        THEN Outcome("UnboundLocalError", D1, ob, Cache, {}, <<>>, None)
        ELSE IF losspvs = None \/ (Len(LossPVs) > 0 /\ ~ob2.hasLosses)
        THEN Outcome("AttributeError", D2, ob2, Cache, {}, <<>>, None)
        ELSE IF serie = <<>>
        THEN Outcome("IndexError", D3, ob2, Cache, {}, <<>>, None)
        ELSE Outcome("", D3, ob2, Cache, {}, <<>>, None)

\* the ways a call of write_data can end
Outcomes(o, devs, method, importFails, ch1, ch2) ==
    LET pre == Collect(o, devs) IN
    IF pre.exc # ""
    THEN {pre}
    ELSE {Finish([map |-> pre.data, stale |-> pre.stale], pre.ob, method,
                 Backend(importFails), ch1, ch2, ro) :
             ro \in Renamed([map |-> pre.data, stale |-> pre.stale], python)}

write_data(o, devs, method, importFails, ch1, ch2) ==
    /\ ncalls < MaxCalls
    /\ ncalls' = ncalls + 1
    /\ \E out \in Outcomes(o, devs, method, importFails, ch1, ch2) :
          /\ data' = out.data
          /\ obj' = [obj EXCEPT ![o] = out.ob]
          /\ pvs' = out.cache.pvs
          /\ npv' = out.cache.npv
          /\ accessed' = accessed \cup out.read
          /\ last_filename' = IF out.saves = <<>> THEN last_filename
                              ELSE [file |-> out.saves[Len(out.saves)].backend]
          /\ last' = [op |-> "write_data", o |-> o, devices |-> devs,
                      method |-> method, importFails |-> importFails,
                      len0 |-> Len(obj[o].values), exc |-> out.exc,
                      rets |-> IF out.exc = "" THEN << <<TRUE, "">> >> ELSE <<>>,
                      saves |-> out.saves, before |-> out.before,
                      stale |-> out.stale]
          /\ UNCHANGED <<losspvs, python>>

----------------------------------------------------------------------------
\* the PV interface, with one write_data run interleaved
Next ==
    \/ \E n \in PVNames, ch \in Channels : get_value(n, ch)
    \/ \E n \in PVNames, v \in Vals, ch \in Channels : set_value(n, v, ch)
    \/ \E chan \in [{BEND} -> Channels] : get_energy(chan)
    \/ \E chan \in [{CALC252} -> Channels] : get_charge(chan)
    \/ \E chan \in [{CALC252, BIMAX} -> Channels] : get_charge_current(chan)
    \/ \E chan \in [SeqRange(LossPVs) -> Channels] : get_losses(chan)
    \/ \E ch1, ch2 \in Channels :
          write_data(1, <<DevA>>, <<"simplex">>, FALSE, ch1, ch2)

\* sessions that start with MaxLen points recorded
InitPV == Init /\ \A o \in Objs : obj[o].niter = MaxLen

Spec == InitPV /\ [][Next]_vars

\* write_data on every objective and devices list, with the energy getter
NextWrite ==
    \/ \E chan \in [{BEND} -> Channels] : get_energy(chan)
    \/ \E o \in Objs, devs \in DevLists, m \in Methods, f \in BOOLEAN,
          ch1, ch2 \in Channels :
          write_data(o, devs, m, f, ch1, ch2)

SpecWrite == Init /\ [][NextWrite]_vars

----------------------------------------------------------------------------
(* Properties *)

GetOps == {"get_value", "get_energy", "get_charge", "get_charge_current", "get_losses"}

Saved == last.op = "write_data" /\ last.saves # <<>>
SavedMap == last.saves[1].data

\* C1: get_value returns None whenever the PV it reads is not connected at
\* the time of the call, on the first access to the name (handle just
\* created) and on later ones (handle cached).
C1_DisconnectedReadsNone ==
    last.op \in GetOps =>
        \A i \in DOMAIN last.names : ~last.conn[i] => last.rets[i] = None

C1_Witness ==
    /\ last.op = "get_value"
    /\ ~last.conn[1]
    /\ ~last.first[1]
    /\ last.rets[1] = None

\* C2: the cache holds a handle for exactly the names accessed so far, one
\* epics.PV object was constructed for each of them and none for the others,
\* and no step removes a key or binds it to another handle.
C2_CacheOnlyGrows ==
    /\ [](/\ DOMAIN pvs = accessed
          /\ \A n \in PVNames : npv[n] = IF n \in DOMAIN pvs THEN 1 ELSE 0)
    /\ [][\A n \in DOMAIN pvs : n \in DOMAIN pvs' /\ pvs'[n] = pvs[n]]_vars

C2_Witness ==
    /\ last.op \in GetOps \cup {"set_value"}
    /\ \E i \in DOMAIN last.names : ~last.first[i]
    /\ Cardinality(DOMAIN pvs) >= 2

\* C3 (as claimed): the mapping handed to save holds no entry left over from
\* an earlier call, and self.data is empty after every call that returns.
C3_NoLeftover ==
    /\ Saved => last.stale = {}
    /\ (last.op = "write_data" /\ last.exc = "") => data = <<>>

\* C4 (as claimed): set_value issues exactly one put of val to the PV when it
\* is connected, first access or not, and none (returning None) when it is not.
C4_PutWhenConnected ==
    last.op = "set_value" =>
        IF last.conn[1]
        THEN last.puts = <<(<<last.names[1], last.val>>)>>
        ELSE last.puts = <<>> /\ last.rets[1] = None

\* C5 (as claimed): write_data with the default empty devices list hands the
\* mapping to save exactly once and returns (True, "").
C5_EmptyDevicesReturns ==
    (last.op = "write_data" /\ last.devices = <<>>) =>
        /\ last.exc = ""
        /\ Len(last.saves) = 1
        /\ last.rets = << <<TRUE, "">> >>

\* C6 (as claimed): when the import of matlog fails the call saves exactly
\* once, on the simulation stub under the run name "OcelotScan", stores the
\* result in last_filename and returns (True, ""); nothing is raised.
C6_FallbackSaves ==
    (last.op = "write_data" /\ last.importFails) =>
        /\ last.exc = ""
        /\ Len(last.saves) = 1
        /\ last.saves[1].backend = "simlog"
        /\ last.saves[1].run = <<"OcelotScan">>
        /\ last_filename = [file |-> "simlog"]
        /\ last.rets = << <<TRUE, "">> >>

\* a step that is a call of write_data (last' names the call)
WriteStep == last'.op = "write_data" /\ vars' # vars

SeriesOf(ob) ==
    <<ob.values, ob.objective_means, ob.objective_acquisitions, ob.times,
      ob.std_dev, ob.charge, ob.current>>

\* one leading element gone from every series, niter one less
DroppedOne(ob, ob2) ==
    /\ \A i \in 1 .. 7 :
          /\ SeriesOf(ob)[i] # <<>>
          /\ SeriesOf(ob2)[i] = Tail(SeriesOf(ob)[i])
    /\ ob.hasLosses => ob.losses # <<>> /\ ob2.losses = Tail(ob.losses)
    /\ ob2.niter = ob.niter - 1

Untouched(ob, ob2) ==
    /\ SeriesOf(ob2) = SeriesOf(ob)
    /\ ob2.losses = ob.losses
    /\ ob2.niter = ob.niter

\* C7 (as claimed): the first point is dropped exactly when some device of
\* the list holds fewer values than the objective.
C7_AnyDeviceDecides ==
    [][WriteStep =>
        LET o == last'.o
            devs == last'.devices IN
        IF \E i \in DOMAIN devs : Len(devs[i].values) < Len(obj[o].values)
        THEN DroppedOne(obj[o], obj'[o])
        ELSE Untouched(obj[o], obj'[o])]_vars

\* C7 (amended): the first point is dropped exactly when the devices list is
\* not empty and its last device holds fewer values than the objective; then
\* every series loses one leading element and niter decreases by 1, and
\* otherwise the objective is left as it was.
C7_LastDeviceDecides ==
    [][WriteStep =>
        LET o == last'.o
            devs == last'.devices IN
        IF devs # <<>> /\ Len(devs[Len(devs)].values) < Len(obj[o].values)
        THEN DroppedOne(obj[o], obj'[o])
        ELSE Untouched(obj[o], obj'[o])]_vars

C7_Witness ==
    /\ last.op = "write_data"
    /\ Len(last.devices) >= 2
    /\ \E i \in DOMAIN last.devices : Len(last.devices[i].values) >= last.len0
    /\ Len(last.devices[Len(last.devices)].values) < last.len0
    /\ Len(obj[last.o].values) = last.len0 - 1
    /\ obj[last.o].niter = last.len0 - 1

\* C8 (as claimed): the mapping handed to save has no key with a ':', and
\* every key of self.data before the renaming loop is found in it, with ':'
\* replaced by '_', bound to the value it was bound to.
C8_RenameKeepsData ==
    Saved =>
        /\ \A k \in DOMAIN SavedMap : ~HasColon(k)
        /\ \A k \in DOMAIN last.before :
              /\ Replace(k) \in DOMAIN SavedMap
              /\ SavedMap[Replace(k)] = last.before[k]

\* C9 (as claimed): in the mapping handed to save, 'DetectorMean' names a key
\* of that mapping, bound to a one-element list holding the objective's
\* objective_means.
C9_DetectorMeanPointsAtMeans ==
    Saved =>
        LET k == SavedMap[<<"DetectorMean">>].str IN
        /\ k \in DOMAIN SavedMap
        /\ SavedMap[k] = List(<<Ser(obj[last.o].objective_means)>>)

Uniform(devs, n) == devs # <<>> /\ \A i \in DOMAIN devs : Len(devs[i].values) = n

\* C10: over repeated saves the seven series of an objective keep equal
\* lengths and niter stays their length (so it is never negative, and niter
\* plus the number of points dropped is constant); a call whose devices all
\* hold N values never takes the series from N or more points to fewer.
C10_LengthsAndNiter ==
    /\ [](\A o \in Objs :
            /\ \A i \in 1 .. 7 : Len(SeriesOf(obj[o])[i]) = Len(obj[o].values)
            /\ obj[o].niter = Len(obj[o].values)
            /\ obj[o].niter >= 0)
    /\ [][WriteStep =>
            LET o == last'.o IN
            /\ obj[o].niter - obj'[o].niter
                  = Len(obj[o].values) - Len(obj'[o].values)
            /\ \A n \in 0 .. MaxLen :
                  (Uniform(last'.devices, n) /\ Len(obj[o].values) >= n)
                      => Len(obj'[o].values) >= n]_vars

C10_Witness ==
    /\ last.op = "write_data"
    /\ Uniform(last.devices, Len(obj[last.o].values))
    /\ last.len0 = Len(obj[last.o].values) + 1
    /\ obj[last.o].niter = Len(obj[last.o].values)
====
